---- MODULE Spec2Model ----
(***************************************************************************)
(* Patient tracking system: the tracker of patient_tracker_new.py (class   *)
(* PatientTracker: tracking thread, alerts, start/stop/cleanup) together   *)
(* with the dashboard's alert resolution of web_dashboard.py.              *)
(*                                                                         *)
(* Coordinates are integers in units of 1e-4 degree (40.7128 is 407128).   *)
(* Distances are integers in centimetres.  The fixes the model feeds lie   *)
(* on the meridian of the geofence centre, where the haversine formula     *)
(* reduces to the arc R * |dlat|.                                          *)
(***************************************************************************)
EXTENDS Integers, Sequences, FiniteSets, TLC

\* ------------------------------------------------------------------ bounds
MaxThreads == 2      \* tracking threads the client may create
MaxLocations == 2    \* fixes the positioning source delivers while the table has room
MaxAlerts == 2       \* alerts after which no further alert-raising input is fed
MaxStops == 2        \* calls of stop_tracking or cleanup the client makes
MaxFailures == 7     \* longest no-fix streak fed to one loop
MaxLines == 2        \* lines in one batch of text handed to the decoder
MaxClock == 3        \* readings of the wall clock stamped on fixes: 1..MaxClock
MaxLoads == 2        \* calls of load_config made one after the other
MaxCycles == 4       \* poll cycles fed to the loop of simple_tracker.py

\* ------------------------------------------------------- program constants
geofence_lat == 407128
geofence_lon == -740060
geofence_radius == 100
EARTH_RADIUS == 6371000
GPS_LOST_THRESHOLD == 6
NUM_CONTACTS == 2
JOIN_TIMEOUT == 5
SMS_SECONDS == 3
update_interval == 10

\* --------------------------------------------------------------- variables
VARIABLES
    is_tracking,        \* self.is_tracking
    tracking_thread,    \* self.tracking_thread: 0 while the attribute does not exist
    thr,                \* the tracking threads: position and locals of tracking_loop
    main,               \* the foreground context: where it is in start/stop/cleanup
    gps_serial,         \* "open" | "closed"
    gsm_serial,         \* "None" | "open" | "closed"
    db_conn,            \* "open" | "closed"
    geofence_enabled,   \* self.geofence_enabled
    current_location,   \* self.current_location
    locations,          \* table locations, in rowid order
    alerts,             \* table alerts, in rowid order
    system_status,      \* number of rows of table system_status
    last_insert_rowid,  \* sqlite's last_insert_rowid() of the tracker's connection
    hist,               \* history: what has happened in the current run/streak
    scenario,           \* which inputs this run is fed (fixed at Init)
    call                \* a call of a pure function made on its own: argument and result

vars == <<is_tracking, tracking_thread, thr, main, gps_serial, gsm_serial, db_conn,
          geofence_enabled, current_location, locations, alerts, system_status,
          last_insert_rowid, hist, scenario, call>>

ThreadIds == 1..MaxThreads

None == [none |-> TRUE]

Fix(lat, lon) == [latitude |-> lat, longitude |-> lon]

\* What one read of the positioning source can decode to: nothing, the fence
\* centre (40.7128, -74.0060), or (40.8128, -74.0060), about 11.1 km north.
InsideFix == Fix(geofence_lat, geofence_lon)
OutsideFix == Fix(geofence_lat + 1000, geofence_lon)
GpsInputs == {None, InsideFix, OutsideFix}

\* A read of the port that raises (in_waiting or read on a lost transport).
ReadError == [error |-> TRUE]
GpsReads == GpsInputs \cup {ReadError}

Abs(x) == IF x < 0 THEN -x ELSE x

\* math.radians on a 1e-4 degree count, in units of 1e-8 radian.
Radians(u) == (u * 17453) \div 100

\* calculate_distance: for lon1 = lon2 the haversine terms give
\* a = sin(dlat/2)^2 and c = 2*asin(sqrt(a)) = |dlat|, so distance = |dlat| * R.
calculate_distance(lat1, lon1, lat2, lon2) ==
    LET dlat == Radians(Abs(lat2 - lat1))
    IN  (dlat * (EARTH_RADIUS \div 1000)) \div 1000

\* (mutant) the distance in centimetres compared with the radius in metres
OutsideFenceMetres(location) ==
    calculate_distance(location.latitude, location.longitude,
                       geofence_lat, geofence_lon) > geofence_radius

\* The comparison of check_geofence: distance > self.geofence_radius.
OutsideFence(location) ==
    calculate_distance(location.latitude, location.longitude,
                       geofence_lat, geofence_lon) > geofence_radius * 100

\* The runs explored, each with the configuration it starts from and the
\* inputs it is fed: a long no-fix streak, a sequence of fixes with an operator
\* at the dashboard, a client that stops more than once, and a client that
\* restarts the loop.
Scenarios ==
    { [name |-> "streak", threads |-> 1, failures |-> MaxFailures, fixes |-> 1,
       alerts |-> MaxAlerts, stops |-> 1, dashboard |-> FALSE, geofence |-> {TRUE}],
      [name |-> "fixes", threads |-> 1, failures |-> 1, fixes |-> MaxLocations,
       alerts |-> MaxAlerts, stops |-> 1, dashboard |-> TRUE, geofence |-> BOOLEAN],
      [name |-> "stops", threads |-> 1, failures |-> 1, fixes |-> 1,
       alerts |-> 1, stops |-> MaxStops, dashboard |-> FALSE, geofence |-> {TRUE}],
      [name |-> "restart", threads |-> MaxThreads, failures |-> 1, fixes |-> 1,
       alerts |-> 0, stops |-> MaxThreads - 1, dashboard |-> FALSE,
       geofence |-> {TRUE}] }

\* No pure function is being exercised on its own.
NoCall == [fn |-> "none"]

IdleThread ==
    [pc |-> "unborn", consecutive_failures |-> 0, location |-> None,
     alert_type |-> "", latitude |-> 0, longitude |-> 0,
     sms_i |-> 0, sms_sent_count |-> 0, sms_attempted |-> <<>>, alert_id |-> 0,
     streak_triggers |-> 0, streak_alerts |-> 0, streak_refused |-> 0,
     streak_sms |-> 0, read_raised |-> FALSE, nofix_cycles |-> 0, stored |-> FALSE]

Alive(t) == thr[t].pc \notin {"unborn", "exited", "killed"}

\* A write on the tracker's connection goes through only on an open
\* connection, and only if sqlite accepts it.
WriteOk(ok) == db_conn = "open" /\ ok

Init ==
    /\ scenario \in Scenarios
    /\ call = NoCall
    /\ is_tracking = FALSE
    /\ tracking_thread = 0
    /\ thr = [t \in ThreadIds |-> IdleThread]
    /\ main = [pc |-> "idle", in_cleanup |-> FALSE, stops |-> 0]
    /\ gps_serial = "open"
    /\ gsm_serial \in {"None", "open"}
    /\ db_conn = "open"
    /\ geofence_enabled \in scenario.geofence
    /\ current_location = None
    /\ locations = <<>>
    /\ alerts = <<>>
    /\ system_status = 1
    /\ last_insert_rowid = 1
    /\ hist = [breach_active |-> FALSE, breach_run_alerts |-> 0, breach_run_sms |-> 0,
               stop_returned |-> FALSE, stop_repeated |-> FALSE,
               stop_called |-> {}]

\* ------------------------------------------------------- the tracking loop
\* tracking_loop, line 428: while self.is_tracking, as the new thread first meets it
LoopTest(t) ==
    /\ thr[t].pc = "while_is_tracking"
    /\ thr' = [thr EXCEPT ![t].pc = IF is_tracking THEN "get_gps_location" ELSE "exited"]
    /\ UNCHANGED <<call, scenario, is_tracking, tracking_thread, main, gps_serial, gsm_serial, db_conn,
                   geofence_enabled, current_location, locations, alerts, system_status,
                   last_insert_rowid, hist>>

\* Whether the read of the port raises: always on a closed port.
ReadRaises(raw) == gps_serial # "open" \/ raw = ReadError

\* (mutant) a failed read answered with the last known location
get_gps_location_stale(raw) == IF ReadRaises(raw) THEN current_location ELSE raw

\* get_gps_location: what the read decodes to.  An exception of the read is
\* caught inside the function and the result is None.
get_gps_location(raw) == IF ReadRaises(raw) THEN None ELSE raw

\* (mutant) the threshold test off by one: > where the code has >=
gps_signal_lost_after(n) == n > GPS_LOST_THRESHOLD

\* tracking_loop, line 470: if consecutive_failures >= 6
gps_signal_lost(n) == n >= GPS_LOST_THRESHOLD

\* The head of one cycle: the read, then the branch on `if location`.
\* A counter of no-fix cycles that a fix does not reset.
count_failures_no_reset(n, location) == IF location # None THEN n ELSE n + 1

\* tracking_loop's local consecutive_failures after a poll: line 437 sets it
\* to 0 in the branch of a fix, line 466 adds 1 in the branch of no fix.
count_failures(n, location) == IF location # None THEN 0 ELSE n + 1

GetGps(t) ==
    /\ thr[t].pc = "get_gps_location"
    /\ \E raw \in GpsReads :
         LET location == get_gps_location(raw)
             n == count_failures(thr[t].consecutive_failures, location)
         IN  IF location # None
             THEN /\ Len(locations) < scenario.fixes
                  /\ (geofence_enabled /\ OutsideFence(location)) => Len(alerts) < scenario.alerts
                  /\ current_location' = location
                  /\ thr' = [thr EXCEPT ![t].consecutive_failures = n,
                                        ![t].nofix_cycles = 0,
                                        ![t].location = location,
                                        ![t].streak_triggers = 0,
                                        ![t].streak_alerts = 0,
                                        ![t].streak_refused = 0,
                                        ![t].streak_sms = 0,
                                        ![t].read_raised = ReadRaises(raw),
                                        ![t].pc = "store_location"]
             ELSE /\ thr[t].consecutive_failures < scenario.failures
                  /\ (gps_signal_lost(n)) => Len(alerts) < scenario.alerts
                  /\ UNCHANGED current_location
                  /\ thr' = [thr EXCEPT
                       ![t].consecutive_failures = n,
                       ![t].nofix_cycles = @ + 1,
                       ![t].pc = IF gps_signal_lost(n) THEN "trigger_alert" ELSE "sleep",
                       ![t].alert_type = IF gps_signal_lost(n) THEN "GPS_LOST" ELSE "",
                       ![t].latitude = IF gps_signal_lost(n) /\ current_location # None
                                       THEN current_location.latitude ELSE 0,
                       ![t].longitude = IF gps_signal_lost(n) /\ current_location # None
                                        THEN current_location.longitude ELSE 0,
                       ![t].streak_triggers = IF gps_signal_lost(n) THEN @ + 1 ELSE @,
                       ![t].read_raised = ReadRaises(raw)]
    /\ UNCHANGED <<call, scenario, is_tracking, tracking_thread, main, gps_serial, gsm_serial, db_conn,
                   geofence_enabled, locations, alerts, system_status, last_insert_rowid,
                   hist>>

\* (mutant) the fence evaluated whatever the configuration says
geofence_always_active == TRUE

\* The test of self.geofence_enabled, made by tracking_loop before it calls
\* check_geofence (line 456) and again by check_geofence itself (line 314).
geofence_active == geofence_enabled

\* check_geofence, its return value: True at once when the fence is disabled,
\* else False (after trigger_alert('GEOFENCE_BREACH', ...)) exactly when
\* distance > self.geofence_radius.
check_geofence(location) ==
    IF ~geofence_active THEN TRUE
    ELSE IF OutsideFence(location) THEN FALSE
    ELSE TRUE

\* check_geofence, its side effect: whether it has called
\* trigger_alert('GEOFENCE_BREACH', ...) before returning (lines 325-331).
breach_reported(location) == geofence_active /\ OutsideFence(location)

\* store_location: INSERT INTO locations, commit; a failure is caught and printed.
\* The loop then reaches `if self.geofence_enabled`.
\* A store that keeps one row per patient: the newest fix replaces the last row.
insert_or_replace_location(rows, location) ==
    IF rows = <<>> THEN <<location>> ELSE [rows EXCEPT ![Len(rows)] = location]

\* INSERT INTO locations (...) VALUES (...): the table gains one row at its
\* end; no statement of the tracker or of the dashboard updates or deletes a
\* location row.
insert_location(rows, location) == Append(rows, location)

StoreLocation(t) ==
    /\ thr[t].pc = "store_location"
    /\ \E ok \in BOOLEAN :
         IF WriteOk(ok)
         THEN /\ locations' = insert_location(locations, thr[t].location)
              /\ last_insert_rowid' = Len(locations) + 1
              /\ thr' = [thr EXCEPT
                   ![t].pc = IF geofence_active THEN "check_geofence" ELSE "sleep",
                   ![t].location = IF geofence_active THEN @ ELSE None,
                   ![t].stored = TRUE]
         ELSE /\ UNCHANGED <<locations, last_insert_rowid>>
              /\ thr' = [thr EXCEPT
                   ![t].pc = IF geofence_active THEN "check_geofence" ELSE "sleep",
                   ![t].location = IF geofence_active THEN @ ELSE None,
                   ![t].stored = FALSE]
    /\ UNCHANGED <<call, scenario, is_tracking, tracking_thread, main, gps_serial, gsm_serial, db_conn,
                   geofence_enabled, current_location, alerts, system_status, hist>>

\* The call of check_geofence in the loop: a False return has called
\* trigger_alert('GEOFENCE_BREACH', ...) with the fix's coordinates.
CheckGeofence(t) ==
    /\ thr[t].pc = "check_geofence"
    /\ IF breach_reported(thr[t].location)
       THEN /\ thr' = [thr EXCEPT ![t].pc = "trigger_alert",
                                  ![t].alert_type = "GEOFENCE_BREACH",
                                  ![t].latitude = thr[t].location.latitude,
                                  ![t].longitude = thr[t].location.longitude,
                                  ![t].location = None]
            /\ hist' = [hist EXCEPT !.breach_active = TRUE]
       ELSE /\ thr' = [thr EXCEPT ![t].pc = "sleep", ![t].location = None]
            /\ hist' = [hist EXCEPT !.breach_active = FALSE,
                                    !.breach_run_alerts = 0,
                                    !.breach_run_sms = 0]
    /\ UNCHANGED <<call, scenario, is_tracking, tracking_thread, main, gps_serial, gsm_serial, db_conn,
                   geofence_enabled, current_location, locations, alerts, system_status,
                   last_insert_rowid>>

NewAlert(alert_type, latitude, longitude) ==
    [alert_type |-> alert_type, latitude |-> latitude, longitude |-> longitude,
     sms_sent |-> FALSE, resolved |-> FALSE]

\* (mutant) an INSERT with a try of its own: the sends follow either way
after_insert_unguarded(inserted) ==
    IF gsm_serial # "None" THEN "send_sms_alert" ELSE "update_alert"

\* Where trigger_alert is after INSERT and commit (lines 349-355): an exception
\* leaves the one try block of the function for its except clause (line 378),
\* past the sends and the UPDATE; else the sends follow, which `if
\* self.gsm_serial:` skips without a modem.
after_insert(inserted) ==
    IF ~inserted THEN "sleep"
    ELSE IF gsm_serial # "None" THEN "send_sms_alert" ELSE "update_alert"

\* trigger_alert, lines 349-355: INSERT INTO alerts, commit.  An exception
\* leaves trigger_alert through its except clause: nothing is sent.
TriggerAlertInsert(t) ==
    /\ thr[t].pc = "trigger_alert"
    /\ \E ok \in BOOLEAN :
         IF WriteOk(ok)
         THEN /\ alerts' = Append(alerts, NewAlert(thr[t].alert_type, thr[t].latitude,
                                                   thr[t].longitude))
              /\ last_insert_rowid' = Len(alerts) + 1
              /\ thr' = [thr EXCEPT
                   ![t].pc = after_insert(TRUE),
                   ![t].sms_i = 0,
                   ![t].sms_sent_count = 0,
                   ![t].sms_attempted = <<>>,
                   ![t].alert_id = Len(alerts) + 1,
                   ![t].read_raised = FALSE,
                   ![t].streak_alerts = IF thr[t].alert_type = "GPS_LOST" THEN @ + 1 ELSE @]
              /\ hist' = [hist EXCEPT !.breach_run_alerts =
                            IF thr[t].alert_type = "GEOFENCE_BREACH" THEN @ + 1 ELSE @]
         ELSE /\ thr' = [thr EXCEPT
                   ![t].pc = after_insert(FALSE), ![t].alert_type = "",
                   ![t].latitude = 0, ![t].longitude = 0,
                   ![t].read_raised = FALSE,
                   ![t].streak_refused = IF thr[t].alert_type = "GPS_LOST" THEN @ + 1 ELSE @]
              /\ UNCHANGED <<alerts, last_insert_rowid, hist>>
    /\ UNCHANGED <<call, scenario, is_tracking, tracking_thread, main, gps_serial, gsm_serial, db_conn,
                   geofence_enabled, current_location, locations, system_status>>

\* send_sms_alert: True iff the modem answered '+CMGS:'; a write on a closed
\* port raises and the exception makes it False.
send_sms_alert(ack) == gsm_serial = "open" /\ ack

\* (mutant) a failed send leaves the alert handling and the loop
after_send_fatal(i, sent) ==
    IF ~sent THEN "exited"
    ELSE IF i = NUM_CONTACTS THEN "update_alert" ELSE "send_sms_alert"

\* (mutant) a failed send ends the loop over the contacts
after_send_break(i, sent) ==
    IF ~sent \/ i = NUM_CONTACTS THEN "update_alert" ELSE "send_sms_alert"

\* Where trigger_alert is after the send to contact number i returned `sent`:
\* the for loop takes the next contact whatever the result, and falls through
\* to the UPDATE after the last one.
after_send(i, sent) ==
    IF i = NUM_CONTACTS THEN "update_alert" ELSE "send_sms_alert"

\* trigger_alert, lines 360-366: one pass of `for number in self.emergency_contacts`.
SendSms(t) ==
    /\ thr[t].pc = "send_sms_alert"
    /\ \E ack \in BOOLEAN :
         LET sent == send_sms_alert(ack)
             i == thr[t].sms_i + 1
         IN  thr' = [thr EXCEPT
              ![t].sms_i = i,
              ![t].sms_sent_count = IF sent THEN @ + 1 ELSE @,
              ![t].sms_attempted = Append(@, [to |-> i, sent |-> sent]),
              ![t].streak_sms = IF thr[t].alert_type = "GPS_LOST" THEN @ + 1 ELSE @,
              ![t].pc = after_send(i, sent)]
    /\ hist' = [hist EXCEPT !.breach_run_sms =
                  IF thr[t].alert_type = "GEOFENCE_BREACH" THEN @ + 1 ELSE @]
    /\ UNCHANGED <<call, scenario, is_tracking, tracking_thread, main, gps_serial, gsm_serial, db_conn,
                   geofence_enabled, current_location, locations, alerts, system_status,
                   last_insert_rowid>>

\* (mutant) the row rewritten whole instead of updated in place, which puts
\* every column the statement does not name back to its default
ReplaceAlertRow(rows, id, sent) ==
    IF id \in DOMAIN rows
    THEN [rows EXCEPT ![id] = [NewAlert(@.alert_type, @.latitude, @.longitude)
                                 EXCEPT !.sms_sent = sent]]
    ELSE rows

\* UPDATE alerts SET sms_sent = ? WHERE id = last_insert_rowid()
SetSmsSent(rows, id, sent) ==
    IF id \in DOMAIN rows THEN [rows EXCEPT ![id].sms_sent = sent] ELSE rows

\* trigger_alert, lines 370-376: the UPDATE, commit, then log_system_status
\* (INSERT INTO system_status).  A failure of the UPDATE skips the log.
UpdateAlert(t) ==
    /\ thr[t].pc = "update_alert"
    /\ \E ok \in BOOLEAN :
         IF WriteOk(ok)
         THEN /\ alerts' = SetSmsSent(alerts, last_insert_rowid, thr[t].sms_sent_count > 0)
              /\ system_status' = system_status + 1
              /\ last_insert_rowid' = system_status + 1
         ELSE UNCHANGED <<alerts, system_status, last_insert_rowid>>
    /\ thr' = [thr EXCEPT ![t].pc = "sleep", ![t].alert_type = "",
                          ![t].latitude = 0, ![t].longitude = 0,
                          ![t].sms_i = 0, ![t].sms_sent_count = 0,
                          ![t].sms_attempted = <<>>, ![t].alert_id = 0]
    /\ UNCHANGED <<call, scenario, is_tracking, tracking_thread, main, gps_serial, gsm_serial, db_conn,
                   geofence_enabled, current_location, locations, hist>>

\* time.sleep(self.update_interval), line 481, and the loop test that follows it
Sleep(t) ==
    /\ thr[t].pc = "sleep"
    /\ thr' = [thr EXCEPT ![t].pc = IF is_tracking THEN "get_gps_location" ELSE "exited",
                          ![t].read_raised = FALSE]
    /\ UNCHANGED <<call, scenario, is_tracking, tracking_thread, main, gps_serial, gsm_serial, db_conn,
                   geofence_enabled, current_location, locations, alerts, system_status,
                   last_insert_rowid, hist>>

\* ------------------------------------------- the foreground context (client)
\* log_system_status: INSERT INTO system_status, commit; fails silently.
LogRows == IF db_conn = "open" THEN system_status + 1 ELSE system_status
LogRowid == IF db_conn = "open" THEN system_status + 1 ELSE last_insert_rowid

\* start_tracking, lines 491-495: a no-op while is_tracking is set; else the
\* flag is set and a new daemon thread runs tracking_loop.
StartTracking ==
    /\ main.pc = "idle"
    /\ \/ /\ is_tracking
          /\ UNCHANGED vars
       \/ /\ ~is_tracking
          /\ tracking_thread < scenario.threads
          /\ is_tracking' = TRUE
          /\ tracking_thread' = tracking_thread + 1
          /\ thr' = [thr EXCEPT ![tracking_thread + 1].pc = "while_is_tracking"]
          /\ main' = [main EXCEPT !.pc = "start_log"]
          /\ hist' = [hist EXCEPT !.stop_returned = FALSE]
          /\ UNCHANGED <<call, scenario, gps_serial, gsm_serial, db_conn, geofence_enabled,
                         current_location, locations, alerts, system_status,
                         last_insert_rowid>>

\* start_tracking, line 496: log_system_status("TRACKING", "STARTED", ...)
StartLog ==
    /\ main.pc = "start_log"
    /\ system_status' = LogRows
    /\ last_insert_rowid' = LogRowid
    /\ main' = [main EXCEPT !.pc = "idle"]
    /\ UNCHANGED <<call, scenario, is_tracking, tracking_thread, thr, gps_serial, gsm_serial, db_conn,
                   geofence_enabled, current_location, locations, alerts, hist>>

\* A stop that flips the running flag instead of clearing it.
StopBeginToggle(from_cleanup) ==
    /\ main.pc = "idle"
    /\ main.stops < scenario.stops
    /\ is_tracking' = ~is_tracking
    /\ main' = [pc |-> IF tracking_thread # 0 THEN "join" ELSE "stop_log",
                in_cleanup |-> from_cleanup, stops |-> main.stops + 1]
    /\ hist' = [hist EXCEPT !.stop_returned = FALSE,
                            !.stop_repeated = @ \/ (hist.stop_returned /\ tracking_thread # 0),
                            !.stop_called = @ \cup {t \in ThreadIds : Alive(t)}]
    /\ UNCHANGED <<call, scenario, tracking_thread, thr, gps_serial, gsm_serial, db_conn,
                   geofence_enabled, current_location, locations, alerts, system_status,
                   last_insert_rowid>>

\* stop_tracking, lines 500-501: clear the flag; join only if a thread was
\* ever created.  cleanup (line 510) enters the same way.
StopBegin(from_cleanup) ==
    /\ main.pc = "idle"
    /\ main.stops < scenario.stops
    /\ is_tracking' = FALSE
    /\ main' = [pc |-> IF tracking_thread # 0 THEN "join" ELSE "stop_log",
                in_cleanup |-> from_cleanup, stops |-> main.stops + 1]
    /\ hist' = [hist EXCEPT !.stop_returned = FALSE,
                            !.stop_repeated = @ \/ (hist.stop_returned /\ tracking_thread # 0),
                            !.stop_called = @ \cup {t \in ThreadIds : Alive(t)}]
    /\ UNCHANGED <<call, scenario, tracking_thread, thr, gps_serial, gsm_serial, db_conn,
                   geofence_enabled, current_location, locations, alerts, system_status,
                   last_insert_rowid>>

StopTracking == StopBegin(FALSE)

Cleanup == StopBegin(TRUE)

\* Whether join(timeout=5) can expire with the thread `T` still inside
\* tracking_loop: it is in time.sleep(update_interval), which no flag wakes, or
\* it is sending to the contacts, each send sleeping 1 s + 2 s.
join_times_out(T) ==
    \/ T.pc = "sleep" /\ update_interval > JOIN_TIMEOUT
    \/ T.pc = "send_sms_alert" /\ (NUM_CONTACTS - T.sms_i) * SMS_SECONDS > JOIN_TIMEOUT

\* stop_tracking, line 502: self.tracking_thread.join(timeout=5) returns when
\* the thread has exited or when the timeout expires.
JoinReturns ==
    /\ main.pc = "join"
    /\ \/ thr[tracking_thread].pc = "exited"
       \/ join_times_out(thr[tracking_thread])
    /\ main' = [main EXCEPT !.pc = "stop_log"]
    /\ UNCHANGED <<call, scenario, is_tracking, tracking_thread, thr, gps_serial, gsm_serial, db_conn,
                   geofence_enabled, current_location, locations, alerts, system_status,
                   last_insert_rowid, hist>>

\* stop_tracking, line 503: log_system_status("TRACKING", "STOPPED", ...),
\* after which stop_tracking returns (into cleanup, when called from it).
StopLog ==
    /\ main.pc = "stop_log"
    /\ system_status' = LogRows
    /\ last_insert_rowid' = LogRowid
    /\ main' = [main EXCEPT !.pc = IF main.in_cleanup THEN "cleanup_close" ELSE "idle"]
    /\ hist' = [hist EXCEPT !.stop_returned = TRUE]
    /\ UNCHANGED <<call, scenario, is_tracking, tracking_thread, thr, gps_serial, gsm_serial, db_conn,
                   geofence_enabled, current_location, locations, alerts>>

\* cleanup, lines 512-522: close the GPS port, the GSM port if any, the store.
CleanupClose ==
    /\ main.pc = "cleanup_close"
    /\ gps_serial' = "closed"
    /\ gsm_serial' = IF gsm_serial = "None" THEN "None" ELSE "closed"
    /\ db_conn' = "closed"
    /\ main' = [main EXCEPT !.pc = "closed"]
    /\ UNCHANGED <<call, scenario, is_tracking, tracking_thread, thr, geofence_enabled, current_location,
                   locations, alerts, system_status, last_insert_rowid, hist>>

\* signal_handler, line 534: exit(0) after cleanup ends the process and with
\* it every daemon thread.
ProcessExit ==
    /\ main.pc = "closed"
    /\ main' = [main EXCEPT !.pc = "terminated"]
    /\ thr' = [t \in ThreadIds |->
                 IF Alive(t) THEN [IdleThread EXCEPT !.pc = "killed"] ELSE thr[t]]
    /\ UNCHANGED <<call, scenario, is_tracking, tracking_thread, gps_serial, gsm_serial, db_conn,
                   geofence_enabled, current_location, locations, alerts, system_status,
                   last_insert_rowid, hist>>

\* (mutant) an UPDATE without its WHERE clause
SetResolvedEveryRow(rows, id) ==
    [i \in DOMAIN rows |-> [rows[i] EXCEPT !.resolved = TRUE]]

\* ------------------------------------------------------------ the dashboard
\* UPDATE alerts SET resolved = 1 WHERE id = ?
SetResolved(rows, id) ==
    IF id \in DOMAIN rows THEN [rows EXCEPT ![id].resolved = TRUE] ELSE rows

\* mark_alert_resolved, on the dashboard's own connection
MarkAlertResolved(alert_id) ==
    /\ scenario.dashboard
    /\ alerts' = SetResolved(alerts, alert_id)
    /\ UNCHANGED <<call, scenario, is_tracking, tracking_thread, thr, main, gps_serial, gsm_serial,
                   db_conn, geofence_enabled, current_location, locations, system_status,
                   last_insert_rowid, hist>>

\* ------------------------------------------------------------ specification
Next ==
    \/ \E t \in ThreadIds : LoopTest(t)
    \/ \E t \in ThreadIds : GetGps(t)
    \/ \E t \in ThreadIds : StoreLocation(t)
    \/ \E t \in ThreadIds : CheckGeofence(t)
    \/ \E t \in ThreadIds : TriggerAlertInsert(t)
    \/ \E t \in ThreadIds : SendSms(t)
    \/ \E t \in ThreadIds : UpdateAlert(t)
    \/ \E t \in ThreadIds : Sleep(t)
    \/ StartTracking
    \/ StartLog
    \/ StopTracking
    \/ Cleanup
    \/ JoinReturns
    \/ StopLog
    \/ CleanupClose
    \/ ProcessExit
    \/ \E alert_id \in 1..(MaxAlerts + 1) : MarkAlertResolved(alert_id)

Spec == Init /\ [][Next]_vars

\* -------------------------------------------------------------- the decoder
\* One line of the text read from the port.  `indent`: white space before the
\* first character; `dollar`: the first non-blank character is '$'; `type`:
\* the five letters that follow; `checksum_ok`: the sentence is complete and
\* its checksum matches; then the coordinate fields.  A coordinate field is
\* empty (no satellite lock yet), garbled (a non-numeric character in it), or
\* degrees and minutes, the minutes counted in 1e-4 minute.
Empty == [kind |-> "empty"]
Garbled == [kind |-> "garbled"]
DM(deg, min) == [kind |-> "dm", deg |-> deg, min |-> min]

Line(indent, dollar, type, checksum_ok, lat, lat_dir, lon, lon_dir) ==
    [indent |-> indent, dollar |-> dollar, type |-> type, checksum_ok |-> checksum_ok,
     lat |-> lat, lat_dir |-> lat_dir, lon |-> lon, lon_dir |-> lon_dir]

\* The speed-over-ground field of a $GPRMC sentence: empty, or a number of
\* knots.
Knots(n) == [kind |-> "knots", knots |-> n]

\* A $GPRMC sentence, complete and with a matching checksum.
RMC(lat, lat_dir, lon, lon_dir, spd_over_grnd) ==
    [indent |-> FALSE, dollar |-> TRUE, type |-> "GPRMC", checksum_ok |-> TRUE,
     lat |-> lat, lat_dir |-> lat_dir, lon |-> lon, lon_dir |-> lon_dir,
     spd_over_grnd |-> spd_over_grnd]

\* Results of decoding one line other than a fix.
Skip == [skip |-> TRUE]
Abort == [abort |-> TRUE]

\* (mutant) the minutes taken as a decimal fraction of a degree
dm_to_sd_decimal(f) == IF f.kind = "empty" THEN 0 ELSE f.deg * 10000 + f.min \div 100

\* pynmea2's conversion of a ddmm.mmmm field to degrees (here in 1e-4 degree):
\* 0 for an empty field, degrees + minutes / 60 otherwise.
dm_to_sd(f) == IF f.kind = "empty" THEN 0 ELSE f.deg * 10000 + f.min \div 60

\* msg.latitude and msg.longitude of pynmea2: signed by the hemisphere field,
\* and 0 when the hemisphere field is neither of its two letters.
latitude(line) ==
    IF line.lat_dir = "N" THEN dm_to_sd(line.lat)
    ELSE IF line.lat_dir = "S" THEN -dm_to_sd(line.lat)
    ELSE 0

longitude(line) ==
    IF line.lon_dir = "E" THEN dm_to_sd(line.lon)
    ELSE IF line.lon_dir = "W" THEN -dm_to_sd(line.lon)
    ELSE 0

\* parse_gps_data, line 240: 'speed': msg.spd_over_grnd * 1.852 if
\* msg.spd_over_grnd else 0.  The result in thousandths of its unit, which
\* is km/h.
rmc_speed(f) ==
    IF f.kind = "empty" \/ f.knots = 0 THEN 0 ELSE f.knots * 1852

\* parse_gps_data, lines 223-245, for a line that starts with '$': a $GPGGA
\* or $GPRMC sentence is parsed and its fix returned; ParseError (raised by
\* pynmea2.parse, e.g. on a checksum mismatch) is caught and the scan goes on;
\* any other exception (the conversion of a garbled coordinate field) leaves
\* the loop through the outer except clause.
sentence_fix(line) ==
    IF line.type \notin {"GPGGA", "GPRMC"} THEN Skip
    ELSE IF ~line.checksum_ok THEN Skip
    ELSE IF line.lat.kind = "garbled" \/ line.lon.kind = "garbled" THEN Abort
    ELSE IF line.type = "GPRMC"
         THEN [latitude |-> latitude(line), longitude |-> longitude(line),
               speed |-> rmc_speed(line.spd_over_grnd)]
    ELSE Fix(latitude(line), longitude(line))

\* (mutant) the test on the first character left out
decode_any_line(line) == sentence_fix(line)

\* parse_gps_data, lines 219-245: one pass of the loop over the lines.  The
\* line is stripped first, so white space before the '$' does not count.
decode_line(line) ==
    IF ~line.dollar THEN Skip ELSE sentence_fix(line)

RECURSIVE parse_gps_data_from(_, _)
parse_gps_data_from(raw_data, i) ==
    IF i > Len(raw_data) THEN None
    ELSE LET r == decode_line(raw_data[i])
         IN  IF r = Skip THEN parse_gps_data_from(raw_data, i + 1)
             ELSE IF r = Abort THEN None
             ELSE r

\* parse_gps_data of patient_tracker_new.py
parse_gps_data(raw_data) == parse_gps_data_from(raw_data, 1)

\* parse_nmea of tracker.py, one pass of its loop: only an unindented $GPGGA
\* line with both coordinate fields non-empty is converted; no checksum is
\* looked at; the sign is flipped for 'S' and 'W'; float() of a garbled field
\* raises, which ends the whole scan.
parse_nmea_line(line) ==
    IF line.indent \/ ~line.dollar \/ line.type # "GPGGA" THEN Skip
    ELSE IF line.lat.kind = "empty" \/ line.lon.kind = "empty" THEN Skip
    ELSE IF line.lat.kind = "garbled" \/ line.lon.kind = "garbled" THEN Abort
    ELSE Fix(IF line.lat_dir = "S" THEN -dm_to_sd(line.lat) ELSE dm_to_sd(line.lat),
             IF line.lon_dir = "W" THEN -dm_to_sd(line.lon) ELSE dm_to_sd(line.lon))

RECURSIVE parse_nmea_from(_, _)
parse_nmea_from(data, i) ==
    IF i > Len(data) THEN None
    ELSE LET r == parse_nmea_line(data[i])
         IN  IF r = Skip THEN parse_nmea_from(data, i + 1)
             ELSE IF r = Abort THEN None
             ELSE r

parse_nmea(data) == parse_nmea_from(data, 1)

\* ------------------------------------------- the pure functions on their own
\* Sentences the decoder is handed.  The position is New York,
\* 4042.7680,N,07400.3600,W, that is (40.7128, -74.0060).
GoodGGA == Line(FALSE, TRUE, "GPGGA", TRUE, DM(40, 427680), "N", DM(74, 3600), "W")
GoodRMC == RMC(DM(40, 487680), "N", DM(74, 3600), "W", Knots(10))
BadChecksumGGA == [GoodGGA EXCEPT !.checksum_ok = FALSE]
GarbledGGA == [GoodGGA EXCEPT !.lat = Garbled]
PreLockGGA == Line(FALSE, TRUE, "GPGGA", TRUE, Empty, "", Empty, "")
OtherSentence == Line(FALSE, TRUE, "GPGSV", TRUE, Empty, "", Empty, "")
NoDollarGGA == [GoodGGA EXCEPT !.dollar = FALSE]
IndentedGGA == [GoodGGA EXCEPT !.indent = TRUE]

LineKinds == {GoodGGA, GoodRMC, BadChecksumGGA, GarbledGGA, PreLockGGA, OtherSentence,
              NoDollarGGA, IndentedGGA}

\* The batches: every text of at most MaxLines of these lines.
RECURSIVE BatchesOfLen(_)
BatchesOfLen(n) ==
    IF n = 0 THEN {<<>>}
    ELSE {Append(b, l) : b \in BatchesOfLen(n - 1), l \in LineKinds}

Batches == UNION {BatchesOfLen(n) : n \in 0..MaxLines}

\* Well-formed $GPGGA sentences over the whole range of positions: latitude
\* up to 90 degrees, longitude up to 180, minutes below 60, both hemispheres.
LatFields == {DM(d, m) : d \in {0, 40, 89}, m \in {0, 427680, 599999}} \cup {DM(90, 0)}
LonFields == {DM(d, m) : d \in {0, 74, 179}, m \in {0, 3600, 599999}} \cup {DM(180, 0)}

WellFormedGGA ==
    {Line(FALSE, TRUE, "GPGGA", TRUE, lat, ns, lon, ew) :
        lat \in LatFields, ns \in {"N", "S"}, lon \in LonFields, ew \in {"E", "W"}}

\* ------------------------------------------------ the distance, in general
\* calculate_distance for any two points, computed as the code computes it but
\* in whole numbers: angles in degrees on a grid of 30, so that the half
\* differences are multiples of 15; sines and cosines in thousandths, from the
\* table of sin(0), sin(15), ..., sin(90).
SinTable == <<0, 259, 500, 707, 866, 966, 1000>>

\* math.sin of an angle of -180..180 degrees, a multiple of 15
Sin(d) ==
    LET u == Abs(d)
        v == IF u <= 90 THEN u ELSE 180 - u
        y == SinTable[v \div 15 + 1]
    IN  IF d < 0 THEN -y ELSE y

\* math.cos of an angle of -90..90 degrees
Cos(d) == Sin(90 - d)

\* math.sqrt of a number of millionths, in thousandths
Sqrt(a) == CHOOSE r \in 0..1415 : r * r <= a /\ (r + 1) * (r + 1) > a

\* math.asin of a number of thousandths (0..1000), in hundredths of a degree:
\* the table read backwards, linear between its entries.
Asin(y) ==
    IF y >= 1000 THEN 9000
    ELSE LET k == CHOOSE j \in 1..6 : SinTable[j] <= y /\ y < SinTable[j + 1]
         IN  1500 * (k - 1) + (1500 * (y - SinTable[k])) \div (SinTable[k + 1] - SinTable[k])

\* The value of float('inf'), returned when the computation raises.
Infinity == 2147483647

\* (mutant) the cosine of the first latitude taken for both points
haversine_a_first(lat1, lon1, lat2, lon2) ==
    Sin((lat2 - lat1) \div 2) * Sin((lat2 - lat1) \div 2)
    + (((Cos(lat1) * Cos(lat1)) \div 1000)
          * (Sin((lon2 - lon1) \div 2) * Sin((lon2 - lon1) \div 2))) \div 1000

\* line 301: a = sin(dlat/2)**2 + cos(lat1) * cos(lat2) * sin(dlon/2)**2, in
\* millionths
haversine_a(lat1, lon1, lat2, lon2) ==
    Sin((lat2 - lat1) \div 2) * Sin((lat2 - lat1) \div 2)
    + (((Cos(lat1) * Cos(lat2)) \div 1000)
          * (Sin((lon2 - lon1) \div 2) * Sin((lon2 - lon1) \div 2))) \div 1000

\* lines 302-306: c = 2 * asin(sqrt(a)); distance = c * 6371000, here in km;
\* asin of more than 1 raises and the except clause returns float('inf').
haversine(lat1, lon1, lat2, lon2) ==
    LET a == haversine_a(lat1, lon1, lat2, lon2)
    IN  IF a > 1000000 THEN Infinity
        ELSE LET c == 2 * Asin(Sqrt(a))
                 c_rad == (c * 17453) \div 10000
             IN  (c_rad * (EARTH_RADIUS \div 1000)) \div 10000

\* Points handed to calculate_distance: both poles, the equator, both
\* hemispheres, the date line.
GridPoints ==
    {[latitude |-> la, longitude |-> lo] :
        la \in {-90, -60, -30, 0, 30, 60, 90}, lo \in {-180, -120, -30, 0, 30, 90, 180}}

\* $GPRMC sentences over the speed field: empty, at rest, 1 knot, 54 knots
\* (100 km/h).
SpeedFields == {Empty} \cup {Knots(n) : n \in {0, 1, 54}}

RMCSentences == {RMC(DM(40, 427680), "N", DM(74, 3600), "W", f) : f \in SpeedFields}

\* ------------------------------------------------------ the configuration
\* Python values as json sees them, each with its type; floats in 1e-4.
PyStr(x) == [t |-> "str", v |-> x]
PyInt(x) == [t |-> "int", v |-> x]
PyFloat(x) == [t |-> "float", v |-> x]
PyBool(x) == [t |-> "bool", v |-> x]
PyList(x) == [t |-> "list", v |-> x]
PyDict(x) == [t |-> "dict", v |-> x]

\* (mutant) an encoder that writes floats with two decimals
RECURSIVE json_dump_rounded(_)
json_dump_rounded(value) ==
    CASE value.t = "str" -> [j |-> "string", v |-> value.v]
      [] value.t = "int" -> [j |-> "number", point |-> FALSE, v |-> value.v]
      [] value.t = "float" -> [j |-> "number", point |-> TRUE, v |-> (value.v \div 100) * 100]
      [] value.t = "bool" -> [j |-> IF value.v THEN "true" ELSE "false"]
      [] value.t = "list" -> [j |-> "array", v |-> [i \in DOMAIN value.v |-> json_dump_rounded(value.v[i])]]
      [] value.t = "dict" -> [j |-> "object", v |-> [k \in DOMAIN value.v |-> json_dump_rounded(value.v[k])]]

\* json.dump: the JSON text of a value.  A str becomes a string, an int a
\* number written without a point, a float a number written with one (its
\* shortest repr, which reads back as the same float), a bool true or false, a
\* list an array, a dict with str keys an object.
RECURSIVE json_dump(_)
json_dump(value) ==
    CASE value.t = "str" -> [j |-> "string", v |-> value.v]
      [] value.t = "int" -> [j |-> "number", point |-> FALSE, v |-> value.v]
      [] value.t = "float" -> [j |-> "number", point |-> TRUE, v |-> value.v]
      [] value.t = "bool" -> [j |-> IF value.v THEN "true" ELSE "false"]
      [] value.t = "list" -> [j |-> "array", v |-> [i \in DOMAIN value.v |-> json_dump(value.v[i])]]
      [] value.t = "dict" -> [j |-> "object", v |-> [k \in DOMAIN value.v |-> json_dump(value.v[k])]]

\* json.load: the value of a JSON text.  A number without a point is an int,
\* one with a point a float; an array is a list, an object a dict.
RECURSIVE json_load(_)
json_load(text) ==
    CASE text.j = "string" -> PyStr(text.v)
      [] text.j = "number" -> IF text.point THEN PyFloat(text.v) ELSE PyInt(text.v)
      [] text.j = "true" -> PyBool(TRUE)
      [] text.j = "false" -> PyBool(FALSE)
      [] text.j = "array" -> PyList([i \in DOMAIN text.v |-> json_load(text.v[i])])
      [] text.j = "object" -> PyDict([k \in DOMAIN text.v |-> json_load(text.v[k])])

\* load_config of patient_tracker.py, lines 52-66
default_config ==
    PyDict([patient_id |-> PyStr("PATIENT001"),
            gps_port |-> PyStr("/dev/ttyS0"),
            gps_baudrate |-> PyInt(9600),
            gsm_port |-> PyStr("/dev/ttyUSB0"),
            gsm_baudrate |-> PyInt(115200),
            server_url |-> PyStr("http://your-server.com/api/location"),
            update_interval |-> PyInt(30),
            emergency_numbers |-> PyList(<<PyStr("+918848776875"), PyStr("+9175929912412")>>),
            geofence |-> PyDict([enabled |-> PyBool(TRUE),
                                 latitude |-> PyFloat(geofence_lat),
                                 longitude |-> PyFloat(geofence_lon),
                                 radius |-> PyInt(geofence_radius)])])

\* config.json: missing, holding a JSON text, or holding something that is
\* not JSON.
Missing == [exists |-> FALSE]
File(text) == [exists |-> TRUE, valid |-> TRUE, text |-> text]
NotJson == [exists |-> TRUE, valid |-> FALSE]

\* A configuration an installer wrote: another interval, the fence off.
custom_config ==
    PyDict([update_interval |-> PyInt(10),
            geofence |-> PyDict([enabled |-> PyBool(FALSE)])])

ConfigFiles == {Missing, NotJson, File(json_dump(custom_config))}

\* What load_config does not return: json.load's JSONDecodeError leaves it.
Raised == [raised |-> TRUE]

\* Fixes handed to check_geofence: on the meridian of the centre, this many
\* 1e-4 degree (11.1 m each) north of it; 90 of them are 1000 m.
FenceOffsets == {0, 1, 8, 9, 90, 1000}
FenceFixes == {Fix(geofence_lat + d, geofence_lon) : d \in FenceOffsets}

\* A fix as parse_gps_data returns it for storing: with 'timestamp':
\* datetime.now(), the wall clock read when the sentence was decoded.
Stamped(location, timestamp) ==
    [latitude |-> location.latitude, longitude |-> location.longitude,
     timestamp |-> timestamp]

StampedFixes == {Stamped(x, ts) : x \in {InsideFix, OutsideFix}, ts \in 1..MaxClock}

\* The tables the store can hold before the call: every sequence of at most
\* MaxLocations stamped fixes, in rowid order.
RECURSIVE HistoriesOfLen(_)
HistoriesOfLen(n) ==
    IF n = 0 THEN {<<>>}
    ELSE {Append(h, r) : h \in HistoriesOfLen(n - 1), r \in StampedFixes}

Histories == UNION {HistoriesOfLen(n) : n \in 0..MaxLocations}

\* get_current_location of the dashboard: SELECT * FROM locations ORDER BY
\* timestamp DESC LIMIT 1.  The rows this can return: those whose timestamp is
\* the greatest in the table (sqlite does not say which of several it takes).
get_current_location(rows) ==
    {rows[i] : i \in {k \in DOMAIN rows :
                        \A m \in DOMAIN rows : rows[m].timestamp <= rows[k].timestamp}}

Pending == [pending |-> TRUE]

\* The fixes of successive poll cycles, one sequence per choice of in-fence
\* and out-of-fence positions, each stamped with the time it was decoded.
CycleFixes ==
    {[i \in 1..MaxClock |-> Stamped(x[i], i)] : x \in [1..MaxClock -> {InsideFix, OutsideFix}]}

\* How the two statements of store_location can end.  "committed": both went
\* through.  "refused": cursor.execute raised (no connection, a closed one,
\* another writer holds the lock), nothing was inserted.  "commit_failed": the
\* INSERT ran inside the transaction that sqlite3 opens before it, and
\* self.db_conn.commit() raised 'database is locked' because a reader of the
\* file kept its lock past the busy timeout; the except clause prints and
\* does not roll back, so the transaction stays open with the row in it.
StoreOutcomes == {"committed", "refused", "commit_failed"}

\* self.db_conn.commit(): every row of the open transaction reaches the table.
commit(rows, transaction) == rows \o transaction

\* The 'geofence' entry of config.json, which patient_tracker.py and the
\* dashboard both read: the radius in centimetres, here the configured one or
\* one that a fix of FenceFixes lies on exactly.
FenceRadii ==
    {geofence_radius * 100,
     calculate_distance(geofence_lat + 9, geofence_lon, geofence_lat, geofence_lon)}

GeofenceConfigs ==
    {[enabled |-> e, latitude |-> geofence_lat, longitude |-> geofence_lon, radius |-> r] :
        e \in BOOLEAN, r \in FenceRadii}

\* patient_tracker.py check_geofence: whether it calls
\* trigger_alert('GEOFENCE_BREACH', ...), that is, enabled and
\* distance > self.config['geofence']['radius'].
config_breach_reported(location, geofence) ==
    /\ geofence.enabled
    /\ calculate_distance(location.latitude, location.longitude,
                          geofence.latitude, geofence.longitude) > geofence.radius

\* web_dashboard.calculate_distance: delta_lat = radians(lat2 - lat1),
\* a = sin(delta_lat/2)^2 for equal longitudes, c = 2*atan2(sqrt(a), sqrt(1-a))
\* = |delta_lat|, distance = R * c.
dashboard_calculate_distance(lat1, lon1, lat2, lon2) ==
    LET delta_lat == Radians(Abs(lat2 - lat1))
    IN  (delta_lat * (EARTH_RADIUS \div 1000)) \div 1000

\* (mutant) a fence whose border is outside
get_geofence_status_open(rows, geofence) ==
    IF ~geofence.enabled THEN "disabled"
    ELSE IF rows = <<>> THEN "unknown"
    ELSE IF dashboard_calculate_distance(rows[Len(rows)].latitude, rows[Len(rows)].longitude,
                                         geofence.latitude, geofence.longitude)
            < geofence.radius
    THEN "within" ELSE "outside"

\* get_geofence_status, its 'status': {'enabled': False} when the fence is
\* off, 'unknown' without a location, else 'within' exactly when
\* distance <= geofence['radius'], for the latest row of locations.
get_geofence_status(rows, geofence) ==
    IF ~geofence.enabled THEN "disabled"
    ELSE IF rows = <<>> THEN "unknown"
    ELSE IF dashboard_calculate_distance(rows[Len(rows)].latitude, rows[Len(rows)].longitude,
                                         geofence.latitude, geofence.longitude)
            <= geofence.radius
    THEN "within" ELSE "outside"

\* The alerts tables a dashboard request can meet: rows the tracker inserted,
\* some of them already resolved by an earlier request.
AlertRow(alert_type, resolved) ==
    [NewAlert(alert_type, OutsideFix.latitude, OutsideFix.longitude)
        EXCEPT !.resolved = resolved]

AlertTablesOfLen(n) ==
    [1..n -> {AlertRow(a, r) : a \in {"GEOFENCE_BREACH", "GPS_LOST"}, r \in BOOLEAN}]

AlertTables == UNION {AlertTablesOfLen(n) : n \in 0..MaxAlerts}

\* get_alerts: LIMIT 50
ALERTS_LIMIT == 50

\* get_alerts: SELECT * FROM alerts WHERE resolved = 0 ORDER BY timestamp DESC
\* LIMIT 50, as the set of ids of the rows returned.  The timestamp of an alert
\* is the datetime.now() of its INSERT, so the rows are taken newest id first.
get_alerts(rows) ==
    LET open == {i \in DOMAIN rows : ~rows[i].resolved}
    IN  {i \in open : Cardinality({j \in open : j > i}) < ALERTS_LIMIT}

\* The tables the listing is asked for: none, one, as many unresolved alerts
\* as the limit and one more, with no, the oldest or the newest alert resolved.
AlertCounts == {0, 1, ALERTS_LIMIT, ALERTS_LIMIT + 1}

AccumulatedAlerts ==
    {[i \in 1..n |-> AlertRow("GEOFENCE_BREACH", i \in R)] :
        n \in AlertCounts, R \in {{}, {1}, {ALERTS_LIMIT + 1}}}

\* request.json.get('alert_id'): an id of the table, or one no row has.
AlertIds == 0..(MaxAlerts + 1)

Calls ==
    {[fn |-> f, arg |-> b, ret |-> Pending] :
        f \in {"parse_gps_data", "parse_nmea"},
        b \in Batches \cup {<<l>> : l \in WellFormedGGA \cup RMCSentences}}
    \cup {[fn |-> "check_geofence", arg |-> x, ret |-> Pending] : x \in FenceFixes}
    \cup {[fn |-> "calculate_distance", arg |-> [a |-> p, b |-> q], ret |-> Pending] :
             p \in GridPoints, q \in GridPoints}
    \cup {[fn |-> "load_config", was |-> f, file |-> f, rets |-> <<>>] : f \in ConfigFiles}
    \cup {[fn |-> "store_location", arg |-> x, stored |-> "pending", ret |-> Pending] :
             x \in StampedFixes}
    \cup {[fn |-> "mark_alert_resolved", arg |-> i, was |-> rows, ret |-> Pending] :
             i \in AlertIds, rows \in AlertTables}
    \cup {[fn |-> "get_alerts", was |-> rows, ret |-> Pending] : rows \in AccumulatedAlerts}
    \cup {[fn |-> "tracking_cycles", fixes |-> fs, cycle |-> 0, in_transaction |-> <<>>,
            failed |-> {}] : fs \in CycleFixes}
    \cup {[fn |-> "get_geofence_status", arg |-> x, geofence |-> g, ret |-> Pending] :
             x \in FenceFixes, g \in GeofenceConfigs}

\* A tracker just constructed, about to make one call.
PureInit ==
    /\ scenario \in {sc \in Scenarios : sc.name = "fixes"}
    /\ call \in Calls
    /\ is_tracking = FALSE
    /\ tracking_thread = 0
    /\ thr = [t \in ThreadIds |-> IdleThread]
    /\ main = [pc |-> "idle", in_cleanup |-> FALSE, stops |-> 0]
    /\ gps_serial = "open"
    /\ gsm_serial = "None"
    /\ db_conn = "open"
    /\ geofence_enabled \in scenario.geofence
    /\ current_location = None
    /\ locations \in IF call.fn = "store_location" THEN Histories
                     ELSE IF call.fn = "mark_alert_resolved" THEN {<<OutsideFix>>}
                     ELSE IF call.fn = "get_geofence_status" THEN {<<>>, <<call.arg>>}
                     ELSE {<<>>}
    /\ alerts = IF call.fn \in {"mark_alert_resolved", "get_alerts"} THEN call.was ELSE <<>>
    /\ system_status = 1
    /\ last_insert_rowid = 1
    /\ hist = [breach_active |-> FALSE, breach_run_alerts |-> 0, breach_run_sms |-> 0,
               stop_returned |-> FALSE, stop_repeated |-> FALSE,
               stop_called |-> {}]

\* The call parse_gps_data(raw_data) returns.
ParseGpsData ==
    /\ call.fn = "parse_gps_data"
    /\ call.ret = Pending
    /\ call' = [call EXCEPT !.ret = parse_gps_data(call.arg)]
    /\ UNCHANGED <<scenario, is_tracking, tracking_thread, thr, main, gps_serial, gsm_serial,
                   db_conn, geofence_enabled, current_location, locations, alerts,
                   system_status, last_insert_rowid, hist>>

\* The call parse_nmea(data) of tracker.py returns.
ParseNmea ==
    /\ call.fn = "parse_nmea"
    /\ call.ret = Pending
    /\ call' = [call EXCEPT !.ret = parse_nmea(call.arg)]
    /\ UNCHANGED <<scenario, is_tracking, tracking_thread, thr, main, gps_serial, gsm_serial,
                   db_conn, geofence_enabled, current_location, locations, alerts,
                   system_status, last_insert_rowid, hist>>

\* The call check_geofence(location) returns.
EvaluateFence ==
    /\ call.fn = "check_geofence"
    /\ call.ret = Pending
    /\ call' = [call EXCEPT !.ret = [within |-> check_geofence(call.arg),
                                     alerted |-> breach_reported(call.arg)]]
    /\ UNCHANGED <<scenario, is_tracking, tracking_thread, thr, main, gps_serial, gsm_serial,
                   db_conn, geofence_enabled, current_location, locations, alerts,
                   system_status, last_insert_rowid, hist>>

\* The call store_location(location) returns: the row is in the table, or the
\* store refused the write and the exception was printed.
StoreLocationCall ==
    /\ call.fn = "store_location"
    /\ call.stored = "pending"
    /\ \E ok \in BOOLEAN :
         IF WriteOk(ok)
         THEN /\ locations' = insert_location(locations, call.arg)
              /\ last_insert_rowid' = Len(locations) + 1
              /\ call' = [call EXCEPT !.stored = "yes"]
         ELSE /\ UNCHANGED <<locations, last_insert_rowid>>
              /\ call' = [call EXCEPT !.stored = "no"]
    /\ UNCHANGED <<scenario, is_tracking, tracking_thread, thr, main, gps_serial, gsm_serial,
                   db_conn, geofence_enabled, current_location, alerts, system_status, hist>>

\* The dashboard's request /api/current_location after that call: the row it
\* answers with, None for its 'No location data available'.
GetCurrentLocation ==
    /\ call.fn = "store_location"
    /\ call.stored # "pending"
    /\ call.ret = Pending
    /\ IF locations = <<>>
       THEN call' = [call EXCEPT !.ret = None]
       ELSE \E row \in get_current_location(locations) : call' = [call EXCEPT !.ret = row]
    /\ UNCHANGED <<scenario, is_tracking, tracking_thread, thr, main, gps_serial, gsm_serial,
                   db_conn, geofence_enabled, current_location, locations, alerts,
                   system_status, last_insert_rowid, hist>>

\* The call calculate_distance(lat1, lon1, lat2, lon2) returns.
CalculateDistance ==
    /\ call.fn = "calculate_distance"
    /\ call.ret = Pending
    /\ call' = [call EXCEPT !.ret =
                  [km |-> haversine(call.arg.a.latitude, call.arg.a.longitude,
                                    call.arg.b.latitude, call.arg.b.longitude)]]
    /\ UNCHANGED <<scenario, is_tracking, tracking_thread, thr, main, gps_serial, gsm_serial,
                   db_conn, geofence_enabled, current_location, locations, alerts,
                   system_status, last_insert_rowid, hist>>

\* One call of load_config: the file is read and decoded; when it does not
\* exist, the default is written to it and returned.
LoadConfig ==
    /\ call.fn = "load_config"
    /\ Len(call.rets) < MaxLoads
    /\ call' = IF ~call.file.exists
               THEN [call EXCEPT !.file = File(json_dump(default_config)),
                                 !.rets = Append(@, default_config)]
               ELSE IF ~call.file.valid
               THEN [call EXCEPT !.rets = Append(@, Raised)]
               ELSE [call EXCEPT !.rets = Append(@, json_load(call.file.text))]
    /\ UNCHANGED <<scenario, is_tracking, tracking_thread, thr, main, gps_serial, gsm_serial,
                   db_conn, geofence_enabled, current_location, locations, alerts,
                   system_status, last_insert_rowid, hist>>

\* The request POST /api/mark_alert_resolved returns: the UPDATE ran on the
\* request's own connection and the answer is {'success': True} either way.
MarkAlertResolvedCall ==
    /\ call.fn = "mark_alert_resolved"
    /\ call.ret = Pending
    /\ alerts' = SetResolved(alerts, call.arg)
    /\ call' = [call EXCEPT !.ret = [success |-> TRUE]]
    /\ UNCHANGED <<scenario, is_tracking, tracking_thread, thr, main, gps_serial, gsm_serial,
                   db_conn, geofence_enabled, current_location, locations,
                   system_status, last_insert_rowid, hist>>

\* The request GET /api/alerts returns the rows of its query.
GetAlerts ==
    /\ call.fn = "get_alerts"
    /\ call.ret = Pending
    /\ call' = [call EXCEPT !.ret = [alerts |-> get_alerts(alerts)]]
    /\ UNCHANGED <<scenario, is_tracking, tracking_thread, thr, main, gps_serial, gsm_serial,
                   db_conn, geofence_enabled, current_location, locations, alerts,
                   system_status, last_insert_rowid, hist>>

\* The request GET /api/geofence_status returns.
GetGeofenceStatus ==
    /\ call.fn = "get_geofence_status"
    /\ call.ret = Pending
    /\ call' = [call EXCEPT !.ret = [status |-> get_geofence_status(locations, call.geofence)]]
    /\ UNCHANGED <<scenario, is_tracking, tracking_thread, thr, main, gps_serial, gsm_serial,
                   db_conn, geofence_enabled, current_location, locations, alerts,
                   system_status, last_insert_rowid, hist>>

\* One poll cycle that decoded a fix, up to the return of store_location
\* (tracking_loop line 452): the fix is inserted and committed, or the call
\* printed 'Database storage error' and the loop goes on to the next cycle.
StoreLocationCycle ==
    /\ call.fn = "tracking_cycles"
    /\ call.cycle < Len(call.fixes)
    /\ \E outcome \in StoreOutcomes :
         LET n == call.cycle + 1
             transaction == insert_location(call.in_transaction, call.fixes[n])
         IN  CASE outcome = "committed" ->
                    /\ locations' = commit(locations, transaction)
                    /\ last_insert_rowid' = Len(locations) + Len(transaction)
                    /\ call' = [call EXCEPT !.cycle = n, !.in_transaction = <<>>]
               [] outcome = "commit_failed" ->
                    /\ last_insert_rowid' = Len(locations) + Len(transaction)
                    /\ call' = [call EXCEPT !.cycle = n, !.in_transaction = transaction,
                                            !.failed = @ \cup {n}]
                    /\ UNCHANGED locations
               [] outcome = "refused" ->
                    /\ call' = [call EXCEPT !.cycle = n, !.failed = @ \cup {n}]
                    /\ UNCHANGED <<locations, last_insert_rowid>>
    /\ UNCHANGED <<scenario, is_tracking, tracking_thread, thr, main, gps_serial, gsm_serial,
                   db_conn, geofence_enabled, current_location, alerts, system_status, hist>>

PureNext ==
    \/ MarkAlertResolvedCall
    \/ StoreLocationCycle
    \/ GetGeofenceStatus
    \/ GetAlerts
    \/ LoadConfig
    \/ CalculateDistance
    \/ ParseGpsData
    \/ ParseNmea
    \/ EvaluateFence
    \/ StoreLocationCall
    \/ GetCurrentLocation

PureSpec == PureInit /\ [][PureNext]_vars

\* ----------------------------------------------------- simple_tracker.py
\* SimplePatientTracker: its construction (setup_database, setup_gps), start,
\* track_loop and stop.  It uses db_conn, gps_serial, is_tracking and one
\* thread; main.pc is where the foreground is.
SimpleThread == [pc |-> "unborn", location |-> None, count |-> 0]

\* __init__, lines 34-36: db_conn = None, gps_serial = None, is_tracking =
\* False, the two setup calls still to come.
SimpleInit ==
    /\ scenario \in {sc \in Scenarios : sc.name = "fixes"}
    /\ call = NoCall
    /\ is_tracking = FALSE
    /\ tracking_thread = 0
    /\ thr = [t \in ThreadIds |-> SimpleThread]
    /\ main = [pc |-> "setup_database", in_cleanup |-> FALSE, stops |-> 0]
    /\ gps_serial = "None"
    /\ gsm_serial = "None"
    /\ db_conn = "None"
    /\ geofence_enabled = TRUE
    /\ current_location = None
    /\ locations = <<>>
    /\ alerts = <<>>
    /\ system_status = 0
    /\ last_insert_rowid = 0
    /\ hist = [breach_active |-> FALSE, breach_run_alerts |-> 0, breach_run_sms |-> 0,
               stop_returned |-> FALSE, stop_repeated |-> FALSE,
               stop_called |-> {}]

\* setup_database, lines 42-59: sqlite3.connect and CREATE TABLE succeed, or
\* connect raises and db_conn stays None; the except clause prints and
\* returns, so __init__ goes on to setup_gps either way.
SetupDatabase ==
    /\ main.pc = "setup_database"
    /\ \E opened \in BOOLEAN :
         /\ db_conn' = IF opened THEN "open" ELSE "None"
         /\ main' = [main EXCEPT !.pc = "setup_gps"]
    /\ UNCHANGED <<scenario, call, is_tracking, tracking_thread, thr, gps_serial,
                   gsm_serial, geofence_enabled, current_location, locations, alerts,
                   system_status, last_insert_rowid, hist>>

\* setup_gps, lines 61-73: the port opens, or the except clause prints its
\* advice and calls exit(1).
SetupGps ==
    /\ main.pc = "setup_gps"
    /\ \E opened \in BOOLEAN :
         /\ gps_serial' = IF opened THEN "open" ELSE "None"
         /\ main' = [main EXCEPT !.pc = IF opened THEN "start" ELSE "terminated"]
    /\ UNCHANGED <<scenario, call, is_tracking, tracking_thread, thr, gsm_serial, db_conn,
                   geofence_enabled, current_location, locations, alerts,
                   system_status, last_insert_rowid, hist>>

\* start, lines 164-169, called by __main__ after the construction
SimpleStart ==
    /\ main.pc = "start"
    /\ is_tracking' = TRUE
    /\ tracking_thread' = 1
    /\ thr' = [thr EXCEPT ![1].pc = "while_is_tracking"]
    /\ main' = [main EXCEPT !.pc = "idle"]
    /\ UNCHANGED <<scenario, call, gps_serial, gsm_serial, db_conn, geofence_enabled,
                   current_location, locations, alerts, system_status,
                   last_insert_rowid, hist>>

\* track_loop, lines 141-143: the loop test and count += 1
SimpleLoopTest ==
    /\ thr[1].pc = "while_is_tracking"
    /\ is_tracking => thr[1].count < MaxCycles
    /\ thr' = [thr EXCEPT ![1].pc = IF is_tracking THEN "get_location" ELSE "exited",
                          ![1].count = IF is_tracking THEN @ + 1 ELSE @]
    /\ UNCHANGED <<scenario, call, is_tracking, tracking_thread, main, gps_serial,
                   gsm_serial, db_conn, geofence_enabled, current_location,
                   locations, alerts, system_status, last_insert_rowid, hist>>

\* track_loop, lines 146-153: location = self.get_location()
SimpleGetLocation ==
    /\ thr[1].pc = "get_location"
    /\ \E raw \in GpsReads :
         LET location == get_gps_location(raw)
         IN  thr' = [thr EXCEPT ![1].location = location,
                                ![1].pc = IF location # None THEN "save_location" ELSE "sleep"]
    /\ UNCHANGED <<scenario, call, is_tracking, tracking_thread, main, gps_serial,
                   gsm_serial, db_conn, geofence_enabled, current_location,
                   locations, alerts, system_status, last_insert_rowid, hist>>

\* save_location, lines 100-111.  With no connection, self.db_conn.cursor()
\* raises AttributeError; with the connection that setup_database made in the
\* foreground thread (check_same_thread left at its default), it raises
\* ProgrammingError in this thread.  Either way the except clause prints
\* 'Save error' and no row is written.
SimpleSaveLocation ==
    /\ thr[1].pc = "save_location"
    /\ thr' = [thr EXCEPT ![1].pc = "check_geofence"]
    /\ UNCHANGED <<scenario, call, is_tracking, tracking_thread, main, gps_serial,
                   gsm_serial, db_conn, geofence_enabled, current_location,
                   locations, alerts, system_status, last_insert_rowid, hist>>

\* check_geofence, lines 113-132: prints the verdict, changes nothing
SimpleCheckGeofence ==
    /\ thr[1].pc = "check_geofence"
    /\ thr' = [thr EXCEPT ![1].pc = "sleep", ![1].location = None]
    /\ UNCHANGED <<scenario, call, is_tracking, tracking_thread, main, gps_serial,
                   gsm_serial, db_conn, geofence_enabled, current_location,
                   locations, alerts, system_status, last_insert_rowid, hist>>

\* track_loop, line 156: time.sleep(self.update_interval)
SimpleSleep ==
    /\ thr[1].pc = "sleep"
    /\ thr' = [thr EXCEPT ![1].pc = "while_is_tracking"]
    /\ UNCHANGED <<scenario, call, is_tracking, tracking_thread, main, gps_serial,
                   gsm_serial, db_conn, geofence_enabled, current_location,
                   locations, alerts, system_status, last_insert_rowid, hist>>

\* stop, lines 171-175, called by __main__ on Ctrl+C: clear the flag, then
\* join the thread.
SimpleStopBegin ==
    /\ main.pc = "idle"
    /\ is_tracking' = FALSE
    /\ main' = [main EXCEPT !.pc = "join", !.stops = 1]
    /\ UNCHANGED <<scenario, call, tracking_thread, thr, gps_serial, gsm_serial, db_conn,
                   geofence_enabled, current_location, locations, alerts,
                   system_status, last_insert_rowid, hist>>

\* stop, lines 175-180: join() has returned because the thread has ended;
\* the port and the connection, if any, are closed.
SimpleStopClose ==
    /\ main.pc = "join"
    /\ thr[1].pc = "exited"
    /\ gps_serial' = IF gps_serial = "None" THEN "None" ELSE "closed"
    /\ db_conn' = IF db_conn = "None" THEN "None" ELSE "closed"
    /\ main' = [main EXCEPT !.pc = "terminated"]
    /\ hist' = [hist EXCEPT !.stop_returned = TRUE]
    /\ UNCHANGED <<scenario, call, is_tracking, tracking_thread, thr, gsm_serial,
                   geofence_enabled, current_location, locations, alerts,
                   system_status, last_insert_rowid>>

SimpleNext ==
    \/ SetupDatabase
    \/ SetupGps
    \/ SimpleStart
    \/ SimpleLoopTest
    \/ SimpleGetLocation
    \/ SimpleSaveLocation
    \/ SimpleCheckGeofence
    \/ SimpleSleep
    \/ SimpleStopBegin
    \/ SimpleStopClose

SimpleSpec == SimpleInit /\ [][SimpleNext]_vars

\* ------------------------------------------------------------------ claims
InFlight(t) ==
    thr[t].pc \in {"store_location", "check_geofence", "trigger_alert",
                   "send_sms_alert", "update_alert"}

Unresolved(alert_type) ==
    {i \in DOMAIN alerts : alerts[i].alert_type = alert_type /\ ~alerts[i].resolved}

\* C1: during one uninterrupted run of out-of-fence fixes (no in-fence fix in
\* between) at most one GEOFENCE_BREACH alert record is persisted: the first
\* out-of-fence cycle creates it and the later ones create none.
C1_OneBreachAlertPerRun == hist.breach_run_alerts <= 1

\* C2: during one uninterrupted breach the notification attempts are those of
\* the poll where the breach began, one per configured destination; later
\* polls of the same breach send nothing.
C2_NotifyOnlyWhenBreachBegins == hist.breach_run_sms <= NUM_CONTACTS

C4_GpsLostOncePerStreak ==
    \A t \in ThreadIds :
        thr[t].streak_alerts <= 1 /\ thr[t].streak_sms <= NUM_CONTACTS

\* C5: once stop_tracking has returned (and start_tracking has not been called
\* since) no tracking thread is alive, so no step of a cycle can follow.
C5_StoppedWhenStopReturns ==
    hist.stop_returned => \A t \in ThreadIds : ~Alive(t)

\* C6: at most one tracking loop is alive, whatever start/stop calls were made.
C6_AtMostOneLoop == Cardinality({t \in ThreadIds : Alive(t)}) <= 1

\* C7: cleanup closes the store and the ports only when no cycle is in flight:
\* no loop is between its read and the end of its alert handling while the
\* store connection is closed.
C7_NoCycleAgainstClosedStore ==
    db_conn = "closed" => \A t \in ThreadIds : ~InFlight(t)

\* C8: every alert starts unresolved, and no step ever takes a resolved alert
\* back to unresolved (nor removes an alert).
C8_ResolvedNeverReverses ==
    [][ /\ \A i \in DOMAIN alerts :
             i \in DOMAIN alerts' /\ (alerts[i].resolved => alerts'[i].resolved)
        /\ \A i \in (DOMAIN alerts') \ (DOMAIN alerts) : ~alerts'[i].resolved ]_vars

\* C8 witness: an alert resolved from the dashboard whose sms_sent has been
\* written by the tracker, next to a later alert that is still open.
C8_Witness ==
    /\ Len(alerts) = 2
    /\ alerts[1].resolved /\ alerts[1].sms_sent
    /\ ~alerts[2].resolved

\* C9: when the last evaluated fix is inside the fence, no GEOFENCE_BREACH
\* alert is left unresolved (the return inside the fence resolved it).
C9_BreachClearedInsideFence ==
    ~hist.breach_active => Unresolved("GEOFENCE_BREACH") = {}

\* C10: a loop that has completed a cycle with a fix (its failure counter is
\* back to 0) leaves no GPS_LOST alert unresolved.
C10_GpsLostClearedByFix ==
    \A t \in ThreadIds :
        (thr[t].pc = "sleep" /\ thr[t].consecutive_failures = 0) =>
            Unresolved("GPS_LOST") = {}

\* C11: a cycle whose read of the positioning source raises is a no-data
\* cycle: the failure counter goes up by exactly 1, nothing is stored, the last
\* known location is kept, and the loop goes on (to its sleep, or to the
\* GPS_LOST alert of a streak) instead of terminating.
C11_ReadFailureIsNoDataCycle ==
    [][ \A t \in ThreadIds :
          (thr[t].pc = "get_gps_location" /\ thr'[t].read_raised) =>
              /\ thr'[t].consecutive_failures = thr[t].consecutive_failures + 1
              /\ locations' = locations
              /\ current_location' = current_location
              /\ thr'[t].pc \in {"sleep", "trigger_alert"} ]_vars

\* C11 witness: a loop asleep after a cycle whose read raised on an open port,
\* with a fix known from an earlier cycle.
C11_Witness ==
    \E t \in ThreadIds :
        /\ thr[t].read_raised /\ thr[t].pc = "sleep"
        /\ thr[t].consecutive_failures = 1
        /\ gps_serial = "open" /\ current_location # None

\* C12: a send that fails never leaves alert handling as a fatal error: the
\* step of the failed send keeps every alert row, the alert being handled is
\* in the table, the handling goes on to the next contact or to the UPDATE,
\* and from the UPDATE the loop reaches its sleep before the next poll (only
\* the exit of the whole process ends it there).
C12_SendFailureNotFatal ==
    [][ \A t \in ThreadIds :
          /\ ( /\ thr[t].pc = "send_sms_alert"
               /\ thr'[t].sms_i = thr[t].sms_i + 1
               /\ thr'[t].sms_sent_count = thr[t].sms_sent_count ) =>
                  /\ alerts' = alerts
                  /\ thr[t].alert_id \in DOMAIN alerts
                  /\ alerts[thr[t].alert_id].alert_type = thr[t].alert_type
                  /\ thr'[t].pc \in {"send_sms_alert", "update_alert"}
          /\ (thr[t].pc = "update_alert" /\ thr'[t].pc # "update_alert") =>
                  thr'[t].pc \in {"sleep", "killed"} ]_vars

\* C12 witness: an alert whose sends all failed on a working port, its row in
\* the table and its handling about to write the UPDATE.
C12_Witness ==
    \E t \in ThreadIds :
        /\ thr[t].pc = "update_alert" /\ gsm_serial = "open"
        /\ thr[t].sms_i = NUM_CONTACTS /\ thr[t].sms_sent_count = 0
        /\ thr[t].alert_id \in DOMAIN alerts

\* The configured destinations, in configured order.
C13_InOrder(attempted) ==
    /\ Len(attempted) = NUM_CONTACTS
    /\ \A i \in 1..NUM_CONTACTS : attempted[i].to = i

\* C13 as stated: when the notification phase of an alert is over, every
\* configured destination has had exactly one attempt, in configured order.
C13_OneAttemptPerDestination ==
    \A t \in ThreadIds :
        thr[t].pc = "update_alert" => C13_InOrder(thr[t].sms_attempted)

\* C13 amended: with a modem configured every destination has had exactly one
\* attempt, in order, whatever the earlier attempts returned; with no modem
\* (gsm_serial is None) no attempt is made at all.
C13_OneAttemptWhenModem ==
    \A t \in ThreadIds :
        thr[t].pc = "update_alert" =>
            IF gsm_serial = "None"
            THEN thr[t].sms_attempted = <<>>
            ELSE C13_InOrder(thr[t].sms_attempted)

\* C13 witness: the first destination failed, the second was still attempted
\* and succeeded.
C13_Witness ==
    \E t \in ThreadIds :
        /\ thr[t].pc = "update_alert"
        /\ Len(thr[t].sms_attempted) = NUM_CONTACTS
        /\ ~thr[t].sms_attempted[1].sent
        /\ thr[t].sms_attempted[NUM_CONTACTS].sent

\* C14: when the handling of an alert ends with its UPDATE accepted by the
\* store (the step from the UPDATE to the sleep that also logs the alert),
\* that alert's sms_sent is true exactly if a send succeeded, and the sms_sent
\* of every other alert is what it was.
C14_SmsSentIffOneSucceeded ==
    [][ \A t \in ThreadIds :
          ( /\ thr[t].pc = "update_alert" /\ thr'[t].pc = "sleep"
            /\ system_status' = system_status + 1 ) =>
              /\ thr[t].alert_id \in DOMAIN alerts'
              /\ alerts'[thr[t].alert_id].sms_sent = (thr[t].sms_sent_count > 0)
              /\ \A i \in DOMAIN alerts \ {thr[t].alert_id} :
                     alerts'[i].sms_sent = alerts[i].sms_sent ]_vars

\* C15: with the geofence disabled no GEOFENCE_BREACH alert exists, none is
\* being handled and no breach notification has been attempted, whatever
\* fixes were stored.
C15_NoBreachWhenDisabled ==
    ~geofence_enabled =>
        /\ \A i \in DOMAIN alerts : alerts[i].alert_type # "GEOFENCE_BREACH"
        /\ \A t \in ThreadIds : thr[t].alert_type # "GEOFENCE_BREACH"
        /\ hist.breach_run_sms = 0 /\ hist.breach_run_alerts = 0

\* C15 witness: fence disabled, a fix 11.1 km from the centre stored, the
\* cycle over.
C15_Witness ==
    /\ ~geofence_enabled
    /\ \E i \in DOMAIN locations : locations[i] = OutsideFix
    /\ \E t \in ThreadIds : thr[t].pc = "sleep" /\ thr[t].consecutive_failures = 0

Returned(fn) == call.fn = fn /\ call.ret # Pending

Decoders == {"parse_gps_data", "parse_nmea"}

\* C16: with the fence enabled a fix is within exactly when its distance from
\* the centre is at most the radius (100 m = 10000 cm): the centre is within,
\* the fix 1000 m north of it is not, and a breach is reported only for a fix
\* that is not within.
C16_WithinIffAtMostRadius ==
    (Returned("check_geofence") /\ geofence_enabled) =>
        LET distance == calculate_distance(call.arg.latitude, call.arg.longitude,
                                           geofence_lat, geofence_lon)
        IN  /\ call.ret.within = (distance <= geofence_radius * 100)
            /\ (call.arg = Fix(geofence_lat, geofence_lon) => call.ret.within)
            /\ (call.arg = Fix(geofence_lat + 90, geofence_lon) =>
                    distance \in 99000..101000 /\ ~call.ret.within)
            /\ (call.ret.alerted => ~call.ret.within)

\* C16 witness: the fix 1000 m from the centre evaluated with the fence
\* enabled: not within, breach reported.
C16_Witness ==
    /\ Returned("check_geofence") /\ geofence_enabled
    /\ call.arg = Fix(geofence_lat + 90, geofence_lon)
    /\ call.ret.alerted

\* A line with a recognised prefix that fails parsing or validation: its
\* checksum does not match, or a coordinate field is garbled.
CorruptSentence(line) ==
    /\ line.dollar /\ line.type \in {"GPGGA", "GPRMC"}
    /\ ~line.checksum_ok \/ line.lat.kind = "garbled" \/ line.lon.kind = "garbled"

\* A valid sentence of a kind the decoder `fn` converts.
ValidSentence(fn, line) ==
    /\ line.dollar /\ line.checksum_ok
    /\ line.lat.kind = "dm" /\ line.lon.kind = "dm"
    /\ line.lat_dir \in {"N", "S"} /\ line.lon_dir \in {"E", "W"}
    /\ IF fn = "parse_nmea" THEN line.type = "GPGGA" /\ ~line.indent
       ELSE line.type \in {"GPGGA", "GPRMC"}

\* C17: when a valid sentence comes after nothing but corrupt sentences, the
\* corrupt ones are skipped and decode returns the Fix of the valid one.
C17_CorruptSentenceSkipped ==
    \A fn \in Decoders :
        Returned(fn) =>
            \A j \in 1..Len(call.arg) :
                ( /\ ValidSentence(fn, call.arg[j])
                  /\ \A i \in 1..(j - 1) : CorruptSentence(call.arg[i]) ) =>
                    /\ call.ret # None
                    /\ call.ret.latitude = latitude(call.arg[j])
                    /\ call.ret.longitude = longitude(call.arg[j])

\* C18 as stated: a text in which no line has '$' as its first character
\* decodes to no fix.
C18_NoDollarLineNoFix ==
    \A fn \in Decoders :
        ( /\ Returned(fn)
          /\ \A i \in 1..Len(call.arg) : call.arg[i].indent \/ ~call.arg[i].dollar ) =>
            call.ret = None

\* C18 amended: a text in which no line has '$' as its first non-blank
\* character decodes to no fix.
C18_NoDollarAfterStripNoFix ==
    \A fn \in Decoders :
        (Returned(fn) /\ \A i \in 1..Len(call.arg) : ~call.arg[i].dollar) =>
            call.ret = None

\* C18 witness: parse_gps_data has returned no fix for a text of two
\* sentences that both lost their '$'.
C18_Witness ==
    /\ Returned("parse_gps_data")
    /\ Len(call.arg) >= 2
    /\ \A i \in 1..Len(call.arg) : call.arg[i] = NoDollarGGA
    /\ call.ret = None

\* C19: a well-formed $GPGGA sentence decodes to a Fix with latitude in
\* [-90, 90] and longitude in [-180, 180] (here in 1e-4 degree), negative
\* exactly for S and W, of magnitude between the field's whole degrees and one
\* degree more; 4042.7680,N,07400.3600,W gives (40.7128, -74.0060).
C19_WellFormedFixInRange ==
    \A fn \in Decoders :
        ( /\ Returned(fn) /\ Len(call.arg) = 1
          /\ call.arg[1] \in WellFormedGGA ) =>
            LET l == call.arg[1]
                r == call.ret
            IN  /\ r # None
                /\ r.latitude \in -900000..900000
                /\ r.longitude \in -1800000..1800000
                /\ (l.lat_dir = "S" => r.latitude <= 0) /\ (l.lat_dir = "N" => r.latitude >= 0)
                /\ (l.lon_dir = "W" => r.longitude <= 0) /\ (l.lon_dir = "E" => r.longitude >= 0)
                /\ Abs(r.latitude) \in (l.lat.deg * 10000)..(l.lat.deg * 10000 + 9999)
                /\ Abs(r.longitude) \in (l.lon.deg * 10000)..(l.lon.deg * 10000 + 9999)
                /\ (l = GoodGGA => r = Fix(geofence_lat, geofence_lon))

\* C19 witness: a sentence of the southern and western hemispheres decoded
\* to a fix with both coordinates negative.
C19_Witness ==
    /\ Returned("parse_gps_data") /\ Len(call.arg) = 1
    /\ call.arg[1] \in WellFormedGGA
    /\ call.ret # None
    /\ call.ret.latitude < 0 /\ call.ret.longitude < 0

\* C20: a text whose sentences all have empty latitude and longitude fields
\* never decodes to a Fix.
C20_UnresolvedFieldsNoFix ==
    \A fn \in Decoders :
        ( /\ Returned(fn)
          /\ \A i \in 1..Len(call.arg) :
                call.arg[i].lat.kind = "empty" /\ call.arg[i].lon.kind = "empty" ) =>
            call.ret = None

\* C22: the location history is append-only: every step of the tracker and of
\* the dashboard leaves each existing location record as it was, and the
\* number of location records never decreases.
C22_LocationsAppendOnly ==
    [][ /\ Len(locations') >= Len(locations)
        /\ \A i \in DOMAIN locations : locations'[i] = locations[i] ]_vars

\* Two different fixes have been stored one after the other, and the dashboard
\* has resolved an alert since.
C22_Witness ==
    /\ Len(locations) = 2
    /\ locations[1] # locations[2]
    /\ \E i \in DOMAIN alerts : alerts[i].resolved

\* C24: stop() is idempotent.  Every step of a stop_tracking call (clearing
\* the flag, the join returning, the STOPPED log row) leaves the flag cleared
\* and changes nothing else of the tracker (its threads, its ports, its store
\* connection, the location and alert tables), whether the loop is running,
\* was already stopped, or was never started; and whenever a stop_tracking
\* call has returned with no start since, the tracker is marked stopped, after
\* one call as after two.  The call has no step that raises.
C24_StopIdempotent ==
    /\ [](hist.stop_returned => ~is_tracking)
    /\ [][ (\/ main.pc = "idle" /\ main'.pc \in {"join", "stop_log"}
            \/ main.pc = "join" /\ main'.pc = "stop_log"
            \/ main.pc = "stop_log" /\ main'.pc = "idle")
           => /\ ~is_tracking'
              /\ <<tracking_thread, thr, gps_serial, gsm_serial, db_conn, locations, alerts>>'
                   = <<tracking_thread, thr, gps_serial, gsm_serial, db_conn, locations, alerts>> ]_vars

\* A stop_tracking call made after the loop was started and stopped (no start
\* in between) has returned: the thread has exited and the tracker is marked
\* stopped.
C24_Witness ==
    /\ hist.stop_repeated /\ hist.stop_returned /\ main.pc = "idle"
    /\ tracking_thread = 1 /\ thr[1].pc = "exited"
    /\ ~is_tracking

\* A context is inside a store write from the call of the writing method
\* (cursor, execute) to its commit: the loop in store_location or in
\* trigger_alert's INSERT or UPDATE, the foreground in log_system_status.
Writing(t) == thr[t].pc \in {"store_location", "trigger_alert", "update_alert"}

ForegroundWriting == main.pc \in {"start_log", "stop_log"}

\* C25: store writes are serialised: in no reachable state are two contexts
\* inside a write on the tracker's shared connection at the same time, the
\* writes made around start() and stop() included.
C25_WritesSerialised ==
    Cardinality({t \in ThreadIds : Writing(t)}) + (IF ForegroundWriting THEN 1 ELSE 0) <= 1

\* C29: in every loop the consecutive-failure counter equals the number of
\* no-fix cycles since the loop's last fix (or since it started): a cycle that
\* yields a fix leaves it at 0 and a no-fix cycle adds exactly 1; so a loop
\* raises GPS_LOST only with at least 6 no-fix cycles behind it and no fix
\* between them.
C29_CounterCountsNoFixCycles ==
    \A t \in ThreadIds :
        /\ thr[t].consecutive_failures = thr[t].nofix_cycles
        /\ thr[t].alert_type = "GPS_LOST" => thr[t].nofix_cycles >= GPS_LOST_THRESHOLD

\* A loop that had a fix (the counter went back to 0) is raising GPS_LOST with
\* the counter at 6.
C29_Witness ==
    \E t \in ThreadIds :
        /\ thr[t].alert_type = "GPS_LOST" /\ thr[t].pc = "trigger_alert"
        /\ thr[t].consecutive_failures = GPS_LOST_THRESHOLD
        /\ current_location # None /\ Len(locations) = 1

\* C30: the loop stops iterating only after stop() has been called.  A loop
\* leaves tracking_loop only in a step taken with the running flag cleared (no
\* failed read, refused write or failed send ends it), and the tracker is never
\* marked running with no loop alive.
C30_LoopEndsOnlyAfterStop ==
    /\ [](is_tracking => \E t \in ThreadIds : Alive(t))
    /\ [][ \A t \in ThreadIds :
             (Alive(t) /\ thr'[t].pc \in {"exited", "killed"}) => ~is_tracking ]_vars

\* A loop whose GPS_LOST alert row the store refused in the cycle it has just
\* finished is still iterating, with the tracker marked running.
C30_Witness ==
    \E t \in ThreadIds :
        /\ is_tracking /\ thr[t].pc = "sleep"
        /\ thr[t].streak_refused > 0

\* C21: right after store_location(fix) has returned with the row written, the
\* most-recent-location query answers with that fix's latitude and longitude,
\* whatever rows the table held before and whatever timestamps they carry.
C21_LatestIsLastAppended ==
    (call.fn = "store_location" /\ call.stored = "yes" /\ call.ret # Pending)
        => /\ call.ret # None
           /\ call.ret.latitude = call.arg.latitude
           /\ call.ret.longitude = call.arg.longitude

\* C26: the distance function gives 0 for a point and itself, and the same
\* value for (a, b) as for (b, a): whatever calculate_distance(a, b) returned
\* is what the computation gives with the two points exchanged.
C26_DistanceZeroAndSymmetric ==
    (call.fn = "calculate_distance" /\ call.ret # Pending)
        => /\ call.ret.km = haversine(call.arg.b.latitude, call.arg.b.longitude,
                                      call.arg.a.latitude, call.arg.a.longitude)
           /\ call.arg.a = call.arg.b => call.ret.km = 0

\* The distance from (30, -120) to (-60, 90) has been computed: different
\* latitudes, different longitudes, and a distance that is not 0.
C26_Witness ==
    /\ call.fn = "calculate_distance" /\ call.ret # Pending
    /\ call.arg.a = [latitude |-> 30, longitude |-> -120]
    /\ call.arg.b = [latitude |-> -60, longitude |-> 90]
    /\ call.ret.km > 0 /\ call.ret.km < Infinity

\* C27: the speed of a fix decoded from a $GPRMC sentence is in metres per
\* second: a sentence with n knots in its speed field decodes to a fix whose
\* speed is n * 0.514444 (here in thousandths: 1 knot is 514).
C27_SpeedInMetresPerSecond ==
    ( /\ Returned("parse_gps_data") /\ Len(call.arg) = 1
      /\ call.arg[1] \in RMCSentences
      /\ call.arg[1].spd_over_grnd.kind = "knots" ) =>
        /\ call.ret # None
        /\ call.ret.speed = (call.arg[1].spd_over_grnd.knots * 514444) \div 1000

\* C28: when config.json is missing, load_config returns the default
\* configuration without raising and leaves the default in config.json, so
\* that every later load_config returns the same configuration.
C28_MissingConfigGivesPersistedDefault ==
    (call.fn = "load_config" /\ call.was = Missing /\ call.rets # <<>>) =>
        /\ call.rets[1] = default_config
        /\ call.file.exists /\ call.file.valid
        /\ \A i \in DOMAIN call.rets : call.rets[i] = call.rets[1]

\* load_config has been called twice, the first time with config.json
\* missing, and has returned the default with its fence at 40.7128 twice.
C28_Witness ==
    /\ call.fn = "load_config" /\ call.was = Missing
    /\ Len(call.rets) = 2
    /\ call.rets[2].v.geofence.v.latitude = PyFloat(geofence_lat)

\* Inside a poll cycle of simple_tracker.py's loop.
Polling(t) == thr[t].pc \in {"get_location", "save_location", "check_geofence", "sleep"}

\* C23: a tracker that could not open the store or the positioning source at
\* startup does not start: no loop is ever inside a poll cycle while the store
\* connection or the positioning source is missing.
C23_NoPollWithoutStoreOrSource ==
    \A t \in ThreadIds :
        Polling(t) => db_conn # "None" /\ gps_serial # "None"

\* C38: mark_alert_resolved(alert_id) sets the resolved flag of the alert with
\* that id and changes nothing else: every other alert row, every other column
\* of that row and every location record are as before; with an id no alert
\* has, or the id of an alert already resolved, the tables are as before.
C38_ResolveTouchesOnlyThatAlert ==
    Returned("mark_alert_resolved") =>
        /\ DOMAIN alerts = DOMAIN call.was
        /\ \A i \in DOMAIN alerts :
              alerts[i] = IF i = call.arg THEN [call.was[i] EXCEPT !.resolved = TRUE]
                          ELSE call.was[i]
        /\ (call.arg \notin DOMAIN call.was => alerts = call.was)
        /\ (call.arg \in DOMAIN call.was /\ call.was[call.arg].resolved => alerts = call.was)
        /\ locations = <<OutsideFix>>

\* C38 witness: a request resolved the first of two unresolved alerts.
C38_Witness ==
    /\ Returned("mark_alert_resolved")
    /\ Len(call.was) = 2 /\ call.arg = 1
    /\ ~call.was[1].resolved /\ ~call.was[2].resolved
    /\ alerts[1].resolved /\ ~alerts[2].resolved

\* C35: the dashboard's alert listing returns every alert whose resolved flag
\* is false and no alert whose resolved flag is true, however many unresolved
\* alerts the table holds.
C35_ListingHasEveryOpenAlert ==
    Returned("get_alerts") =>
        call.ret.alerts = {i \in DOMAIN alerts : ~alerts[i].resolved}

\* C39: for the same latest fix, centre and radius the dashboard's
\* geofence_status is 'outside' exactly when the tracker's geofence check raises
\* a breach for that fix, and 'within' exactly when it does not and the fence
\* is enabled; a fix at a distance equal to the radius is within for both.
\* This holds for the check of patient_tracker.py, which reads the radius from
\* the same config.json, and for the one of patient_tracker_new.py whenever
\* the configured fence is its own.
C39_DashboardAgreesWithTracker ==
    Returned("get_geofence_status") /\ locations # <<>> =>
        LET breach == config_breach_reported(call.arg, call.geofence)
        IN  /\ (call.ret.status = "outside") = breach
            /\ (call.ret.status = "within") = (call.geofence.enabled /\ ~breach)
            /\ (call.geofence.radius = geofence_radius * 100
                   /\ call.geofence.enabled = geofence_enabled
                 => (call.ret.status = "outside") = breach_reported(call.arg))

\* C39 witness: the latest fix lies exactly on the border of the fence and
\* the dashboard reports it within.
C39_Witness ==
    /\ Returned("get_geofence_status") /\ locations # <<>>
    /\ call.geofence.enabled
    /\ calculate_distance(call.arg.latitude, call.arg.longitude,
                          call.geofence.latitude, call.geofence.longitude)
         = call.geofence.radius
    /\ call.ret.status = "within"

\* C36: trigger_alert commits the alert record before its first notification
\* attempt: whenever a notification is about to be or has been attempted, the
\* alert it announces is a row of the alerts table, and a trigger_alert whose
\* INSERT failed goes back to the loop without any attempt.
C36_AlertPersistedBeforeNotification ==
    /\ [](\A t \in ThreadIds :
            thr[t].pc = "send_sms_alert" \/ thr[t].sms_attempted # <<>> =>
                /\ thr[t].alert_id \in DOMAIN alerts
                /\ alerts[thr[t].alert_id].alert_type = thr[t].alert_type
                /\ alerts[thr[t].alert_id].latitude = thr[t].latitude
                /\ alerts[thr[t].alert_id].longitude = thr[t].longitude)
    /\ [][\A t \in ThreadIds :
            thr[t].pc = "trigger_alert" /\ thr'[t].pc # "trigger_alert" /\ alerts' = alerts =>
                thr'[t].pc = "sleep" /\ thr'[t].sms_attempted = <<>>]_vars

\* C36 witness: in one no-fix streak a first alert was refused by the store
\* and went without notification, and a later one was stored and then sent to
\* every contact.
C36_Witness ==
    \E t \in ThreadIds :
        /\ thr[t].streak_refused > 0
        /\ Len(thr[t].sms_attempted) = NUM_CONTACTS
        /\ thr[t].alert_id \in DOMAIN alerts

\* C37: the UPDATE that ends trigger_alert, when the store accepts it, selects
\* the alert row that the same trigger_alert call inserted, whatever another
\* thread has inserted on the shared connection in between.
C37_UpdateSelectsOwnAlert ==
    [][ \A t \in ThreadIds :
          ( /\ thr[t].pc = "update_alert" /\ thr'[t].pc = "sleep"
            /\ system_status' = system_status + 1 ) =>
              last_insert_rowid = thr[t].alert_id ]_vars

\* A latitude and longitude (in 1e-4 degree) that name a point of the globe.
RealPosition(lat, lon) ==
    lat \in -900000..900000 /\ lon \in -1800000..1800000

\* C34: a cycle without a fix leaves the last-known fix as it was, and the
\* GPS_LOST alert it raises carries the coordinates of that last-known fix;
\* when no fix was ever decoded the alert carries a marker of an unknown
\* location, which is not the latitude and longitude of a real position.
C34_LostAlertCarriesLastKnownFix ==
    [][ \A t \in ThreadIds :
          ( /\ thr[t].pc = "get_gps_location"
            /\ thr'[t].pc \in {"sleep", "trigger_alert"} ) =>
              /\ current_location' = current_location
              /\ ( thr'[t].pc = "trigger_alert" =>
                    /\ thr'[t].alert_type = "GPS_LOST"
                    /\ IF current_location # None
                       THEN /\ thr'[t].latitude = current_location.latitude
                            /\ thr'[t].longitude = current_location.longitude
                       ELSE ~RealPosition(thr'[t].latitude, thr'[t].longitude) ) ]_vars

\* C31: a loop that was running when stop_tracking was called starts no new
\* poll cycle after the one it was in: from the call on it makes no step into
\* the read that opens a cycle.
C31_NoNewCycleAfterStop ==
    [][ \A t \in hist.stop_called :
          ~(thr[t].pc # "get_gps_location" /\ thr'[t].pc = "get_gps_location") ]_vars

\* C33: a fix whose store_location call failed is dropped: the loop goes on
\* with the next cycle, and no later cycle writes the failed fix, so that the
\* locations table never holds a fix whose write was reported as failed.
C33_FailedFixIsDropped ==
    call.fn = "tracking_cycles" =>
        \A n \in call.failed : \A k \in DOMAIN locations : locations[k] # call.fixes[n]

\* A step of thread t itself that takes it out of the given place of the
\* loop (the end of the process takes it nowhere).
Leaves(t, pc) == thr[t].pc = pc /\ thr'[t].pc \notin {pc, "killed"}

\* The alert the step has inserted, for a step that inserted one.
Inserted == alerts'[Len(alerts')]

====
